---- MODULE Spec2Model ----
(***************************************************************************)
(* Model of coghost/zlog: the OpenSearch writer (Write, FlushWithContext), *)
(* the flush-and-rotate closure returned by MustNewZapLoggerWithOpenSearch *)
(* and log calls going through the zap logger built on zapcore.NewTee.     *)
(*                                                                         *)
(* Cores are numbered: 0 is the console core, w > 0 is the remote core     *)
(* wrapping writer w.  Threads run the operations step by step; every      *)
(* read or write of shared state is one step.                              *)
(***************************************************************************)
EXTENDS Integers, Sequences, FiniteSets, TLC

\* ---- bounds ----
MaxFlush == 2
MaxRecords == 2

Threads == {1, 2}
Writers == 1..(MaxFlush + 1)
Records == 1..MaxRecords
Console == 0
File == 0 - 1
Free == 0

VARIABLES
  withConsole,      \* opt.withConsole
  backend,          \* environment: "healthy", "faulty" or "recovered"
  active,           \* the threads that use the logger
  cores,            \* var cores []zapcore.Core
  openSearchCore,   \* the captured openSearchCore variable
  openSearchWriter, \* the captured openSearchWriter variable
  logCore,          \* logger.core, the value NewTee returned
  nWriters,         \* writers created so far
  indexerConfig,    \* per writer: indexerConfig.Index, and the instant it was computed at
  closed,           \* w.closed
  stopCloses,       \* how many times close(w.stopChan) ran
  mu,               \* w.mu: the holder, or Free
  addCalls,         \* indexer.Add invocations
  closeCalls,       \* indexer.Close invocations
  items,            \* records the indexer accepted, in Add order
  itemIndex,        \* per writer: the Index of each item, and the instant it was computed at
  flushReturned,    \* a FlushWithContext call has returned on w
  pc,               \* per thread: position
  lv,               \* per thread: locals of the running call
  consoleOut,       \* records the console core wrote
  nextRec,          \* next record to log
  nFlush,           \* flushFunc calls started
  justRotated,      \* the last finished call was a flushFunc returning nil
  createFailed,     \* some createOpenSearchCore call inside flushFunc failed
  flushErrors,      \* the errors flushFunc calls have returned
  deadlineHit,      \* writers on which an Add, or a Close, exceeded its deadline
  opts,             \* the other options of LogOpts, after bindLogOpts
  build,            \* the constructor: position, result, clients created
  fileOut,          \* writes attempted on the lumberjack core: record and success
  timeNow,          \* var timeNow: the instant the injected clock returns (Unix seconds)
  indexConfig,      \* IndexConfig values; the logger's options hold the first
  generator,        \* the generators NewIndexGenerator returned
  names,            \* per generator: its last GetIndexName call
  unparsable        \* the records whose buffer json.Unmarshal rejects

vars == <<withConsole, backend, active, cores, openSearchCore, openSearchWriter,
          logCore, nWriters, indexerConfig, closed, stopCloses, mu, addCalls,
          closeCalls, items, itemIndex, flushReturned, pc, lv, consoleOut, nextRec,
          nFlush, justRotated, createFailed, flushErrors, deadlineHit, opts, build,
          fileOut,
          timeNow, indexConfig, generator, names, unparsable>>

\* What no step of the opensearch logger's calls changes.
clockVars == <<timeNow, indexConfig, generator, names>>
fixedVars == <<clockVars, withConsole, active, opts, build, fileOut, unparsable>>
cfgVars == <<fixedVars, deadlineHit>>
loggerVars == <<cores, openSearchCore, openSearchWriter, logCore, nWriters, indexerConfig>>
writerVars == <<closed, stopCloses, mu, addCalls, closeCalls, items, itemIndex,
               flushReturned>>
histVars == <<consoleOut, nextRec, nFlush, justRotated, createFailed, flushErrors>>

\* ---- pure parts of the code ----

\* zapcore.NewTee: one core is returned as is, several become a multiCore
\* sharing the slice handed in.
NewTee(cs) ==
  IF Len(cs) = 1 THEN [single |-> TRUE, core |-> cs[1]]
  ELSE [single |-> FALSE, core |-> Console]

\* The cores a log call's Check sees.
LoggerCores == IF logCore.single THEN <<logCore.core>> ELSE cores

WriteOutcomeAddsAnyway(isClosed, isStopped) == "add"

WriteOutcomeNoClosed(isClosed, isStopped) ==
  IF isStopped THEN "ErrWriterIsStopping" ELSE "add"

WriteOutcomeStopFirst(isClosed, isStopped) ==
  IF isStopped THEN "ErrWriterIsStopping"
  ELSE IF isClosed THEN "ErrWriterClosed"
  ELSE "add"

\* Write, from the lock to the select: what the call does next.
WriteOutcome(isClosed, isStopped) ==
  IF isClosed THEN "ErrWriterClosed"
  ELSE IF isStopped THEN "ErrWriterIsStopping"
  ELSE "add"

WriteResultUnparsed(isClosed, parses, isStopped) == WriteOutcome(isClosed, isStopped)

\* Write with its json.Unmarshal: an open writer rejects a buffer that does
\* not parse before it looks at the stop channel.
WriteResult(isClosed, parses, isStopped) ==
  IF ~isClosed /\ ~parses THEN "parse_err" ELSE WriteOutcome(isClosed, isStopped)

FlushGuardNone(isClosed) == "proceed"

\* FlushWithContext's check under the lock.
FlushGuard(isClosed) == IF isClosed THEN "ErrWriterClosed" ELSE "proceed"

DirectFlushGuardChecks(isClosed) == IF isClosed THEN "ErrWriterClosed" ELSE "proceed"

\* Flush(): there is no check of closed or of the stop channel before Close.
DirectFlushGuard(isClosed) == "proceed"

CanLockAlways(w) == TRUE

\* w.mu.Lock(): blocks while another holder has the lock.
CanLock(w) == mu[w] = Free

AfterFlushIgnore(err) == "create"

\* flushFunc after FlushWithContext returned err.
AfterFlush(err) == IF err # "nil" THEN "return" ELSE "create"

TrackedStale(old, new) == old

\* createOpenSearchCore: openSearchWriter = writer.
TrackedAfterCreate(old, new) == new

\* flushFunc's range loop: the first index holding openSearchCore, or 0.
RECURSIVE SwapIndexFrom(_, _, _)
SwapIndexFrom(cs, target, i) ==
  IF i > Len(cs) THEN 0
  ELSE IF cs[i] = target THEN i
  ELSE SwapIndexFrom(cs, target, i + 1)

SwapIndex(cs, target) == SwapIndexFrom(cs, target, 1)

\* ---- the constructors' decisions ----

\* MustNewZapLogger: the cores appended for withLJ and withConsole.
PlainCores(lj, con) ==
  (IF lj THEN <<File>> ELSE <<>>) \o (IF con THEN <<Console>> ELSE <<>>)

OpenSearchCoresNone(con) == <<>>

\* MustNewZapLoggerWithOpenSearch: the cores before the remote core is appended.
OpenSearchCoresBefore(con) == IF con THEN <<Console>> ELSE <<>>

\* if opt.openSearchConfig == nil
ConfigMissing(cfg) == ~cfg

IndexMissingNever(idx) == FALSE

\* if opt.openSearchIndex == ""
IndexMissing(idx) == idx = ""

\* len(cores) == 0: MustNewZapLogger prints and returns nil,
\* MustNewZapLoggerWithOpenSearch panics through the internal logger.
ZeroSinksResult(ctor) == IF ctor = "plain" THEN "nil" ELSE "panic"

PlainFlushSyncs == "sync_err"

\* The flush function of MustNewZapLoggerWithFlush: return nil.
PlainFlushResult == "nil"

\* The installation flushFunc works on: sink list, remote core, tracked writer.
LoggerState == <<cores, openSearchCore, openSearchWriter, nWriters>>

\* ---- locals ----
\* ---- index names (index_generator.go) ----

\* A layout is kept as the chunks time.Format splits it into.
DateFormatDot == <<"2006", ".", "01", ".", "02">>
HourlyFormat == <<"2006", ".", "01", ".", "02", "-", "15">>
MonthlyFormat == <<"2006", ".", "01">>
Formats == {<<>>, DateFormatDot, HourlyFormat, MonthlyFormat}
Locations == {"nil", "UTC", "Asia/Tokyo"}
BaseNames == {"logs", "app-logs"}
Gens == {1, 2}

\* The instants the clock is set to: either side of an hour, a day (in UTC and
\* in Asia/Tokyo), a month, a leap day and a year boundary.
Instants ==
  {1704067199, 1704067200, 1704121199, 1704121200, 1704153599, 1704153600,
   1706745599, 1706745600, 1709251199, 1709251200}

NoGenerator == [baseIndexName |-> "", format |-> <<>>, location |-> "nil"]
NoName == [at |-> 0, name |-> ""]
NoIndex == [Index |-> "", at |-> 0]

\* time.Time.In: the wall clock of the location, as seconds (fixed offsets:
\* UTC, and Asia/Tokyo at +09:00 the whole year).
InIgnoringLocation(loc, t) == t

In(loc, t) == IF loc = "Asia/Tokyo" THEN t + 9 * 3600 ELSE t

\* The civil date and hour of a wall clock value.
Date(wall) ==
  LET z == (wall \div 86400) + 719468
      era == z \div 146097
      doe == z - era * 146097
      yoe == (doe - (doe \div 1460) + (doe \div 36524) - (doe \div 146096)) \div 365
      doy == doe - (365 * yoe + (yoe \div 4) - (yoe \div 100))
      mp == (5 * doy + 2) \div 153
      m == IF mp < 10 THEN mp + 3 ELSE mp - 9
  IN  [year |-> yoe + era * 400 + (IF m <= 2 THEN 1 ELSE 0),
       month |-> m,
       day |-> doy - ((153 * mp + 2) \div 5) + 1,
       hour |-> (wall % 86400) \div 3600]

Pad2(n) == IF n < 10 THEN "0" \o ToString(n) ELSE ToString(n)

ChunkDayAsMonth(c, d) ==
  CASE c = "2006" -> ToString(d.year)
    [] c = "01" -> Pad2(d.month)
    [] c = "02" -> Pad2(d.month)
    [] c = "15" -> Pad2(d.hour)
    [] OTHER -> c

\* One chunk of a layout: a reference-time element or literal text.
Chunk(c, d) ==
  CASE c = "2006" -> ToString(d.year)
    [] c = "01" -> Pad2(d.month)
    [] c = "02" -> Pad2(d.day)
    [] c = "15" -> Pad2(d.hour)
    [] OTHER -> c

RECURSIVE Format(_, _)
\* time.Time.Format
Format(layout, wall) ==
  IF layout = <<>> THEN ""
  ELSE Chunk(Head(layout), Date(wall)) \o Format(Tail(layout), wall)

NewIndexGeneratorAsGiven(config) ==
  [baseIndexName |-> config.BaseIndexName,
   format |-> config.Format,
   location |-> config.Location]

\* NewIndexGenerator: a nil Location becomes UTC, an empty Format DateFormatDot.
NewIndexGenerator(config) ==
  [baseIndexName |-> config.BaseIndexName,
   format |-> IF config.Format = <<>> THEN DateFormatDot ELSE config.Format,
   location |-> IF config.Location = "nil" THEN "UTC" ELSE config.Location]

\* GetIndexName; Time.In panics on a nil location.
GetIndexName(g, now) ==
  IF g.location = "nil" THEN "panic"
  ELSE g.baseIndexName \o "-" \o Format(g.format, In(g.location, now))

\* createOpenSearchCore: the generator every writer of the logger is given.
WriterGenerator ==
  NewIndexGenerator([BaseIndexName |-> opts.index,
                     Format |-> indexConfig[1].Format,
                     Location |-> indexConfig[1].Location])

\* newOpenSearchCore: indexerConfig.Index, computed when the writer is built.
ConfigIndex(now) == [Index |-> GetIndexName(WriterGenerator, now), at |-> now]

ItemIndexCached(w) == [Index |-> indexerConfig[w].Index, at |-> timeNow]

\* Write: the Index of the item handed to indexer.Add.
ItemIndex(w) == [Index |-> GetIndexName(WriterGenerator, timeNow), at |-> timeNow]

\* The options' index configuration when none is given: DateFormatDot, UTC.
DefaultIndexConfig ==
  [BaseIndexName |-> "zlog-test", Format |-> DateFormatDot, Location |-> "UTC"]

\* The clock and the generators of a program that only logs.
IdleClock ==
  /\ timeNow = 1704121199
  /\ indexConfig = [g \in Gens |-> DefaultIndexConfig]
  /\ generator = [g \in Gens |-> NoGenerator]
  /\ names = [g \in Gens |-> NoName]

\* flushFunc's error is the error of indexer.Close or of createOpenSearchCore.
FailedForGood(err) == err \in {"close_err", "deadline", "create_err"}

\* Some flushFunc call has returned such an error.
FlushFailed == \E e \in flushErrors : FailedForGood(e)

NoLocals ==
  [rec |-> 0, ce |-> <<>>, w |-> 0, res |-> "none", n |-> 0,
   inWindow |-> FALSE, afterFlush |-> FALSE, snapAdd |-> 0, snapItems |-> 0,
   ffNew |-> 0, ffRes |-> "none", ffMut |-> FALSE, invokedClose |-> FALSE,
   conc |-> FALSE, afterRot |-> FALSE, afterCreateFail |-> FALSE,
   bk |-> "none", snap |-> <<>>, addDl |-> FALSE, closeDl |-> FALSE,
   flushedBefore |-> FALSE, wrapped |-> FALSE, expired |-> FALSE,
   checked |-> <<>>, tried |-> <<>>, op |-> "none", index |-> NoIndex,
   addsMade |-> 0, addNo |-> 0, seenItems |-> <<>>,
   afterFail |-> FALSE, closedAtCall |-> FALSE, stoppedAtCall |-> FALSE,
   closesAtCall |-> 0]

FFpcs == {"ff_read", "f_lock", "f_stop", "f_setclosed", "f_close", "f_closing",
          "f_unlock", "f_ret", "ff_create", "ff_swap", "ff_swap2", "ff_ret"}
Logpcs == {"log_check", "log_write", "w_lock", "w_add", "w_unlock", "w_ret", "log_done"}

InitCores(c) == IF c THEN <<Console, 1>> ELSE <<1>>

\* A logger built by MustNewZapLoggerWithOpenSearch from complete options.
BuiltOpenSearch ==
  /\ opts = [ctor |-> "opensearch", withLJ |-> FALSE, config |-> TRUE,
             index |-> "zlog-test", internalLogger |-> "nop"]
  /\ build = [pc |-> "done", result |-> "logger", clients |-> 1, lenChecked |-> TRUE]
  /\ fileOut = <<>>

\* The logger MustNewZapLoggerWithOpenSearch returned, not yet used.
LoggerBuilt ==
  /\ withConsole \in BOOLEAN
  /\ backend \in {"healthy", "faulty"}
  /\ active \in {{1}, Threads}
  /\ cores = InitCores(withConsole)
  /\ openSearchCore = 1
  /\ openSearchWriter = 1
  /\ logCore = NewTee(InitCores(withConsole))
  /\ nWriters = 1
  /\ closed = [w \in Writers |-> FALSE]
  /\ stopCloses = [w \in Writers |-> 0]
  /\ mu = [w \in Writers |-> Free]
  /\ addCalls = [w \in Writers |-> 0]
  /\ closeCalls = [w \in Writers |-> 0]
  /\ items = [w \in Writers |-> <<>>]
  /\ flushReturned = [w \in Writers |-> FALSE]
  /\ pc = [t \in Threads |-> "idle"]
  /\ lv = [t \in Threads |-> NoLocals]
  /\ consoleOut = <<>>
  /\ nextRec = 1
  /\ nFlush = 0
  /\ justRotated = FALSE
  /\ createFailed = FALSE
  /\ flushErrors = {}
  /\ deadlineHit = [add |-> {}, close |-> {}]
  /\ BuiltOpenSearch
  /\ indexerConfig = [w \in Writers |-> IF w = 1 THEN ConfigIndex(timeNow) ELSE NoIndex]
  /\ itemIndex = [w \in Writers |-> <<>>]

\* The buffers the zap JSON encoder hands to Write all parse.
EncoderOutput == unparsable = {}

Init ==
  /\ IdleClock
  /\ EncoderOutput
  /\ LoggerBuilt


Others(t) == Threads \ {t}
Goto(t, p) == pc' = [pc EXCEPT ![t] = p]
InFlush(t) == pc[t] \in FFpcs
InLog(t) == pc[t] \in Logpcs

\* ---- a log call: logger.Info -> core.Check -> CheckedEntry.Write ----

LogCall(t) ==
  /\ pc[t] = "idle" /\ t \in active
  /\ build.result = "logger"
  /\ nextRec <= MaxRecords
  /\ lv' = [lv EXCEPT ![t] = [NoLocals EXCEPT !.op = "log", !.rec = nextRec,
                                !.conc = \E u \in Others(t) : InFlush(u),
                                !.afterRot = justRotated,
                                !.afterFail = FlushFailed]]
  /\ nextRec' = nextRec + 1
  /\ justRotated' = FALSE
  /\ Goto(t, "log_check")
  /\ UNCHANGED <<cfgVars, backend, loggerVars, writerVars, consoleOut, nFlush, createFailed, flushErrors>>

\* Check: the cores that will write the entry are read from the logger's core.
LogCheck(t) ==
  /\ pc[t] = "log_check"
  /\ lv' = [lv EXCEPT ![t].ce = LoggerCores, ![t].checked = LoggerCores]
  /\ Goto(t, "log_write")
  /\ UNCHANGED <<cfgVars, backend, loggerVars, writerVars, histVars>>

\* The console core writes the entry.
LogWriteConsole(t) ==
  /\ pc[t] = "log_write" /\ lv[t].ce # <<>> /\ Head(lv[t].ce) = Console
  /\ consoleOut' = Append(consoleOut, lv[t].rec)
  /\ lv' = [lv EXCEPT ![t].ce = Tail(lv[t].ce),
                        ![t].tried = Append(lv[t].tried, Console)]
  /\ UNCHANGED <<cfgVars, backend, loggerVars, writerVars, pc, nextRec, nFlush,
                 justRotated, createFailed, flushErrors>>

\* The remote core calls Write on its writer; the call waits for w.mu.
WriteCall(t) ==
  /\ pc[t] = "log_write" /\ lv[t].ce # <<>> /\ Head(lv[t].ce) \in Writers
  /\ LET w == Head(lv[t].ce) IN
       lv' = [lv EXCEPT ![t].w = w,
                        ![t].tried = Append(lv[t].tried, w),
                        ![t].res = "none",
                        ![t].n = 0,
                        ![t].inWindow = (stopCloses[w] > 0 /\ ~closed[w]),
                        ![t].afterFlush = flushReturned[w],
                        ![t].snapAdd = addCalls[w],
                        ![t].addsMade = 0,
                        ![t].addNo = 0,
                        ![t].seenItems = items[w],
                        ![t].snapItems = Len(items[w])]
  /\ Goto(t, "w_lock")
  /\ UNCHANGED <<cfgVars, backend, loggerVars, writerVars, histVars>>

\* Write: Lock, the closed check, the select on stopChan, and the call of Add.
WriteLock(t) ==
  /\ pc[t] = "w_lock"
  /\ LET w == lv[t].w
         out == WriteResult(closed[w], lv[t].rec \notin unparsable, stopCloses[w] > 0) IN
       /\ CanLock(w)
       /\ mu' = [mu EXCEPT ![w] = t]
       /\ IF out = "add"
            THEN /\ addCalls' = [addCalls EXCEPT ![w] = @ + 1]
                 /\ Goto(t, "w_add")
                 /\ lv' = [lv EXCEPT ![t].index = ItemIndex(w),
                                       ![t].addsMade = lv[t].addsMade + 1,
                                       ![t].addNo = addCalls[w] + 1]
            ELSE /\ addCalls' = addCalls
                 /\ Goto(t, "w_unlock")
                 /\ lv' = [lv EXCEPT ![t].res = out, ![t].n = 0]
  /\ UNCHANGED <<cfgVars, backend, loggerVars, closed, stopCloses, closeCalls, items, itemIndex,
                 flushReturned, histVars>>

\* indexer.Add returns nil: the item is in the batch.
AddOk(t) ==
  /\ pc[t] = "w_add"
  /\ items' = [items EXCEPT ![lv[t].w] = Append(@, lv[t].rec)]
  /\ itemIndex' = [itemIndex EXCEPT ![lv[t].w] = Append(@, lv[t].index)]
  /\ lv' = [lv EXCEPT ![t].res = "nil", ![t].n = 1]
  /\ Goto(t, "w_unlock")
  /\ UNCHANGED <<cfgVars, backend, loggerVars, closed, stopCloses, mu, addCalls,
                 closeCalls, flushReturned, histVars>>

\* indexer.Add returns an error: the 5 s context's deadline is exceeded.
AddErr(t) ==
  /\ pc[t] = "w_add"
  /\ backend = "faulty"
  /\ lv' = [lv EXCEPT ![t].res = "add_err", ![t].n = 0]
  /\ deadlineHit' = [deadlineHit EXCEPT !.add = @ \cup {lv[t].w}]
  /\ Goto(t, "w_unlock")
  /\ UNCHANGED <<fixedVars, backend, loggerVars, writerVars, histVars>>

\* The deferred w.mu.Unlock() of Write.
WriteUnlock(t) ==
  /\ pc[t] = "w_unlock"
  /\ mu' = [mu EXCEPT ![lv[t].w] = Free]
  /\ Goto(t, "w_ret")
  /\ UNCHANGED <<cfgVars, backend, loggerVars, closed, stopCloses, addCalls, closeCalls,
                 items, itemIndex, flushReturned, lv, histVars>>

\* Write has returned to the core; the entry goes to the next core.
WriteReturn(t) ==
  /\ pc[t] = "w_ret"
  /\ lv' = [lv EXCEPT ![t].ce = Tail(lv[t].ce)]
  /\ Goto(t, "log_write")
  /\ UNCHANGED <<cfgVars, backend, loggerVars, writerVars, histVars>>

LogFinish(t) ==
  /\ pc[t] = "log_write" /\ lv[t].ce = <<>>
  /\ Goto(t, "log_done")
  /\ UNCHANGED <<cfgVars, backend, loggerVars, writerVars, lv, histVars>>

LogReturn(t) ==
  /\ pc[t] = "log_done"
  /\ lv' = [lv EXCEPT ![t] = NoLocals]
  /\ Goto(t, "idle")
  /\ UNCHANGED <<cfgVars, backend, loggerVars, writerVars, histVars>>

\* ---- flushFunc: FlushWithContext, createOpenSearchCore, the swap ----

FFCall(t) ==
  /\ pc[t] = "idle" /\ t \in active
  /\ build.result = "logger" /\ opts.ctor = "opensearch"
  /\ nFlush < MaxFlush
  /\ nFlush' = nFlush + 1
  /\ lv' = [u \in Threads |->
              IF u = t
                THEN [NoLocals EXCEPT !.op = "flush", !.bk = backend,
                                      !.afterCreateFail = createFailed,
                                      !.afterFail = FlushFailed,
                                      !.snap = LoggerState]
                ELSE IF InLog(u) THEN [lv[u] EXCEPT !.conc = TRUE] ELSE lv[u]]
  /\ Goto(t, "ff_read")
  /\ UNCHANGED <<cfgVars, backend, loggerVars, writerVars, consoleOut, nextRec,
                 justRotated, createFailed, flushErrors>>

\* if openSearchWriter != nil: the tracked writer is read (it is never nil).
FFRead(t) ==
  /\ pc[t] = "ff_read"
  /\ lv' = [lv EXCEPT ![t].w = openSearchWriter,
                        ![t].addDl = openSearchWriter \in deadlineHit.add,
                        ![t].closeDl = openSearchWriter \in deadlineHit.close,
                        ![t].flushedBefore = flushReturned[openSearchWriter]]
  /\ Goto(t, "f_lock")
  /\ UNCHANGED <<cfgVars, backend, loggerVars, writerVars, histVars>>

\* FlushWithContext: Lock and the closed check.
FLock(t) ==
  /\ pc[t] = "f_lock"
  /\ LET w == lv[t].w
         g == FlushGuard(closed[w]) IN
       /\ CanLock(w)
       /\ mu' = [mu EXCEPT ![w] = t]
       /\ IF g = "proceed"
            THEN lv' = lv /\ Goto(t, "f_stop")
            ELSE lv' = [lv EXCEPT ![t].res = g] /\ Goto(t, "f_unlock")
  /\ UNCHANGED <<cfgVars, backend, loggerVars, closed, stopCloses, addCalls, closeCalls,
                 items, itemIndex, flushReturned, histVars>>

\* close(w.stopChan); a second close of the channel would panic.
FStop(t) ==
  /\ pc[t] = "f_stop"
  /\ stopCloses' = [stopCloses EXCEPT ![lv[t].w] = @ + 1]
  /\ Goto(t, "f_setclosed")
  /\ UNCHANGED <<cfgVars, backend, loggerVars, closed, mu, addCalls, closeCalls, items, itemIndex,
                 flushReturned, lv, histVars>>

\* w.closed = true
FSetClosed(t) ==
  /\ pc[t] = "f_setclosed"
  /\ closed' = [closed EXCEPT ![lv[t].w] = TRUE]
  /\ Goto(t, "f_close")
  /\ UNCHANGED <<cfgVars, backend, loggerVars, stopCloses, mu, addCalls, closeCalls, items, itemIndex,
                 flushReturned, lv, histVars>>

\* w.indexer.Close(ctx) is invoked.
FCloseCall(t) ==
  /\ pc[t] = "f_close"
  /\ closeCalls' = [closeCalls EXCEPT ![lv[t].w] = @ + 1]
  /\ lv' = [lv EXCEPT ![t].invokedClose = TRUE, ![t].snapAdd = addCalls[lv[t].w]]
  /\ Goto(t, "f_closing")
  /\ UNCHANGED <<cfgVars, backend, loggerVars, closed, stopCloses, mu, addCalls, items, itemIndex,
                 flushReturned, histVars>>

FCloseOk(t) ==
  /\ pc[t] = "f_closing"
  /\ lv' = [lv EXCEPT ![t].res = "nil"]
  /\ Goto(t, "f_unlock")
  /\ UNCHANGED <<cfgVars, backend, loggerVars, writerVars, histVars>>

\* Close fails: the context's deadline is exceeded, or the indexer reports an error.
FCloseErr(t) ==
  /\ pc[t] = "f_closing"
  /\ backend = "faulty"
  /\ \E e \in {"close_err", "deadline"} :
       /\ lv' = [lv EXCEPT ![t].res = e]
       /\ deadlineHit' = IF e = "deadline"
                           THEN [deadlineHit EXCEPT !.close = @ \cup {lv[t].w}]
                           ELSE deadlineHit
  /\ Goto(t, "f_unlock")
  /\ UNCHANGED <<fixedVars, backend, loggerVars, writerVars, histVars>>

\* The deferred w.mu.Unlock() of FlushWithContext.
FUnlock(t) ==
  /\ pc[t] = "f_unlock"
  /\ mu' = [mu EXCEPT ![lv[t].w] = Free]
  /\ flushReturned' = [flushReturned EXCEPT ![lv[t].w] = TRUE]
  /\ Goto(t, "f_ret")
  /\ UNCHANGED <<cfgVars, backend, loggerVars, closed, stopCloses, addCalls, closeCalls,
                 items, itemIndex, lv, histVars>>

\* if err := FlushWithContext(ctx); err != nil { return "flush error: %w" }
FFAfterFlush(t) ==
  /\ pc[t] = "f_ret"
  /\ IF AfterFlush(lv[t].res) = "return"
       THEN lv' = [lv EXCEPT ![t].ffRes = lv[t].res] /\ Goto(t, "ff_ret")
       ELSE lv' = lv /\ Goto(t, "ff_create")
  /\ UNCHANGED <<cfgVars, backend, loggerVars, writerVars, histVars>>

\* createOpenSearchCore succeeds: a new writer and core; openSearchWriter = writer.
FFCreateOk(t) ==
  /\ pc[t] = "ff_create"
  /\ nWriters < MaxFlush + 1
  /\ nWriters' = nWriters + 1
  /\ indexerConfig' = [indexerConfig EXCEPT ![nWriters + 1] = ConfigIndex(timeNow)]
  /\ openSearchWriter' = TrackedAfterCreate(openSearchWriter, nWriters + 1)
  /\ lv' = [lv EXCEPT ![t].ffNew = nWriters + 1, ![t].ffMut = TRUE]
  /\ Goto(t, "ff_swap")
  /\ UNCHANGED <<cfgVars, backend, cores, openSearchCore, logCore, writerVars, histVars>>

\* createOpenSearchCore fails (client or bulk indexer cannot be built).
FFCreateErr(t) ==
  /\ pc[t] = "ff_create"
  /\ backend = "faulty"
  /\ lv' = [lv EXCEPT ![t].ffRes = "create_err"]
  /\ createFailed' = TRUE
  /\ Goto(t, "ff_ret")
  /\ UNCHANGED <<cfgVars, backend, loggerVars, writerVars, consoleOut, nextRec, nFlush,
                 justRotated, flushErrors>>

\* for i, core := range cores { if core == openSearchCore { cores[i] = newCore
FFSwapSlot(t) ==
  /\ pc[t] = "ff_swap"
  /\ LET i == SwapIndex(cores, openSearchCore) IN
       IF i = 0
         THEN /\ cores' = cores
              /\ lv' = [lv EXCEPT ![t].ffRes = "nil"]
              /\ Goto(t, "ff_ret")
         ELSE /\ cores' = [cores EXCEPT ![i] = lv[t].ffNew]
              /\ lv' = lv
              /\ Goto(t, "ff_swap2")
  /\ UNCHANGED <<cfgVars, backend, openSearchCore, openSearchWriter, logCore, nWriters, indexerConfig,
                 writerVars, histVars>>

\* openSearchCore = newCore; break; return nil
FFSwapVar(t) ==
  /\ pc[t] = "ff_swap2"
  /\ openSearchCore' = lv[t].ffNew
  /\ lv' = [lv EXCEPT ![t].ffRes = "nil"]
  /\ Goto(t, "ff_ret")
  /\ UNCHANGED <<cfgVars, backend, cores, openSearchWriter, logCore, nWriters, indexerConfig, writerVars,
                 histVars>>

FFReturn(t) ==
  /\ pc[t] = "ff_ret" /\ ~lv[t].wrapped
  /\ justRotated' = (lv[t].ffRes = "nil")
  /\ flushErrors' = flushErrors \cup (IF lv[t].ffRes = "nil" THEN {} ELSE {lv[t].ffRes})
  /\ lv' = [lv EXCEPT ![t] = NoLocals]
  /\ Goto(t, "idle")
  /\ UNCHANGED <<cfgVars, backend, loggerVars, writerVars, consoleOut, nextRec, nFlush,
                 createFailed>>

\* ---- environment ----

\* The backend becomes reachable again and stays so.
Recover ==
  /\ backend = "faulty"
  /\ backend' = "recovered"
  /\ UNCHANGED <<cfgVars, loggerVars, writerVars, pc, lv, histVars>>

Next ==
  \/ \E t \in Threads : LogCall(t)
  \/ \E t \in Threads : LogCheck(t)
  \/ \E t \in Threads : LogWriteConsole(t)
  \/ \E t \in Threads : WriteCall(t)
  \/ \E t \in Threads : WriteLock(t)
  \/ \E t \in Threads : AddOk(t)
  \/ \E t \in Threads : AddErr(t)
  \/ \E t \in Threads : WriteUnlock(t)
  \/ \E t \in Threads : WriteReturn(t)
  \/ \E t \in Threads : LogFinish(t)
  \/ \E t \in Threads : LogReturn(t)
  \/ \E t \in Threads : FFCall(t)
  \/ \E t \in Threads : FFRead(t)
  \/ \E t \in Threads : FLock(t)
  \/ \E t \in Threads : FStop(t)
  \/ \E t \in Threads : FSetClosed(t)
  \/ \E t \in Threads : FCloseCall(t)
  \/ \E t \in Threads : FCloseOk(t)
  \/ \E t \in Threads : FCloseErr(t)
  \/ \E t \in Threads : FUnlock(t)
  \/ \E t \in Threads : FFAfterFlush(t)
  \/ \E t \in Threads : FFCreateOk(t)
  \/ \E t \in Threads : FFCreateErr(t)
  \/ \E t \in Threads : FFSwapSlot(t)
  \/ \E t \in Threads : FFSwapVar(t)
  \/ \E t \in Threads : FFReturn(t)
  \/ Recover

Spec == Init /\ [][Next]_vars

\* ---- FlushLogsWithTimeout: the function it returns ----

\* ctx, cancel := context.WithTimeout(...); flushFunc(ctx) is called in the
\* caller's own thread.
WrapCall(t) ==
  /\ pc[t] = "idle" /\ t \in active
  /\ build.result = "logger" /\ opts.ctor = "opensearch"
  /\ nFlush < MaxFlush
  /\ nFlush' = nFlush + 1
  /\ lv' = [u \in Threads |->
              IF u = t
                THEN [NoLocals EXCEPT !.op = "flush", !.bk = backend,
                                      !.afterCreateFail = createFailed,
                                      !.afterFail = FlushFailed,
                                      !.snap = LoggerState, !.wrapped = TRUE]
                ELSE IF InLog(u) THEN [lv[u] EXCEPT !.conc = TRUE] ELSE lv[u]]
  /\ Goto(t, "ff_read")
  /\ UNCHANGED <<cfgVars, backend, loggerVars, writerVars, consoleOut, nextRec,
                 justRotated, createFailed, flushErrors>>

\* The timeout passes: ctx.Done() is closed.
Expire(t) ==
  /\ InFlush(t) /\ lv[t].wrapped /\ ~lv[t].expired
  /\ pc[t] # "ff_ret"
  /\ lv' = [lv EXCEPT ![t].expired = TRUE]
  /\ UNCHANGED <<cfgVars, backend, loggerVars, writerVars, pc, histVars>>

\* indexer.Close(ctx) gives up on the expired context and returns ctx.Err().
FCloseExpired(t) ==
  /\ pc[t] = "f_closing"
  /\ lv[t].expired
  /\ lv' = [lv EXCEPT ![t].res = "deadline"]
  /\ deadlineHit' = [deadlineHit EXCEPT !.close = @ \cup {lv[t].w}]
  /\ Goto(t, "f_unlock")
  /\ UNCHANGED <<fixedVars, backend, loggerVars, writerVars, histVars>>

\* flushFunc has returned: logger.Error or logger.Info, cancel(), return.
WrapReturn(t) ==
  /\ pc[t] = "ff_ret" /\ lv[t].wrapped
  /\ justRotated' = (lv[t].ffRes = "nil")
  /\ flushErrors' = flushErrors \cup (IF lv[t].ffRes = "nil" THEN {} ELSE {lv[t].ffRes})
  /\ lv' = [lv EXCEPT ![t] = NoLocals]
  /\ Goto(t, "idle")
  /\ UNCHANGED <<cfgVars, backend, loggerVars, writerVars, consoleOut, nextRec, nFlush,
                 createFailed>>

NextTimeout ==
  \/ \E t \in Threads : WrapCall(t)
  \/ \E t \in Threads : Expire(t)
  \/ \E t \in Threads : FFRead(t)
  \/ \E t \in Threads : FLock(t)
  \/ \E t \in Threads : FStop(t)
  \/ \E t \in Threads : FSetClosed(t)
  \/ \E t \in Threads : FCloseCall(t)
  \/ \E t \in Threads : FCloseOk(t)
  \/ \E t \in Threads : FCloseErr(t)
  \/ \E t \in Threads : FCloseExpired(t)
  \/ \E t \in Threads : FUnlock(t)
  \/ \E t \in Threads : FFAfterFlush(t)
  \/ \E t \in Threads : FFCreateOk(t)
  \/ \E t \in Threads : FFCreateErr(t)
  \/ \E t \in Threads : FFSwapSlot(t)
  \/ \E t \in Threads : FFSwapVar(t)
  \/ \E t \in Threads : WrapReturn(t)
  \/ \E t \in Threads : LogCall(t)
  \/ \E t \in Threads : LogCheck(t)
  \/ \E t \in Threads : LogWriteConsole(t)
  \/ \E t \in Threads : WriteCall(t)
  \/ \E t \in Threads : WriteLock(t)
  \/ \E t \in Threads : AddOk(t)
  \/ \E t \in Threads : AddErr(t)
  \/ \E t \in Threads : WriteUnlock(t)
  \/ \E t \in Threads : WriteReturn(t)
  \/ \E t \in Threads : LogFinish(t)
  \/ \E t \in Threads : LogReturn(t)

SpecTimeout == Init /\ [][NextTimeout]_vars

\* ---- construction: MustNewZapLogger and MustNewZapLoggerWithOpenSearch ----

mainVars == <<backend, openSearchCore, openSearchWriter, nWriters, indexerConfig, writerVars, pc, lv,
              histVars, deadlineHit>>

BuildAt(p) == build.pc = p
BuildGoto(p) == build' = [build EXCEPT !.pc = p]
BuildEnd(r) == build' = [build EXCEPT !.pc = "done", !.result = r]

\* bindLogOpts; a nil internal logger is replaced by zap.NewNop().
CtorBind ==
  /\ BuildAt("start")
  /\ opts' = IF opts.ctor = "opensearch" /\ opts.internalLogger = "nil"
               THEN [opts EXCEPT !.internalLogger = "nop"]
               ELSE opts
  /\ BuildGoto("cores")
  /\ UNCHANGED <<clockVars, unparsable, withConsole, active, fileOut, cores, logCore, mainVars>>

\* The local cores are appended.
CtorCores ==
  /\ BuildAt("cores")
  /\ IF opts.ctor = "plain"
       THEN cores' = PlainCores(opts.withLJ, withConsole) /\ BuildGoto("len")
       ELSE cores' = OpenSearchCoresBefore(withConsole) /\ BuildGoto("chk_config")
  /\ UNCHANGED <<clockVars, unparsable, withConsole, active, opts, fileOut, logCore, mainVars>>

\* opt.internalLogger.Panic("OpenSearch config must be provided ...")
OSCheckConfig ==
  /\ BuildAt("chk_config")
  /\ IF ConfigMissing(opts.config) THEN BuildEnd("panic") ELSE BuildGoto("chk_index")
  /\ UNCHANGED <<clockVars, unparsable, withConsole, active, opts, fileOut, cores, logCore, mainVars>>

\* opt.internalLogger.Panic("OpenSearch index must be provided ...")
OSCheckIndex ==
  /\ BuildAt("chk_index")
  /\ IF IndexMissing(opts.index) THEN BuildEnd("panic") ELSE BuildGoto("create")
  /\ UNCHANGED <<clockVars, unparsable, withConsole, active, opts, fileOut, cores, logCore, mainVars>>

\* createOpenSearchCore succeeds; cores = append(cores, openSearchCore).
OSCreateOk ==
  /\ BuildAt("create")
  /\ build' = [build EXCEPT !.pc = "len", !.clients = @ + 1]
  /\ nWriters' = nWriters + 1
  /\ indexerConfig' = [indexerConfig EXCEPT ![nWriters + 1] = ConfigIndex(timeNow)]
  /\ openSearchWriter' = TrackedAfterCreate(openSearchWriter, nWriters + 1)
  /\ openSearchCore' = nWriters + 1
  /\ cores' = Append(cores, nWriters + 1)
  /\ UNCHANGED <<clockVars, unparsable, withConsole, active, opts, fileOut, logCore, backend, writerVars, pc, lv,
                 histVars, deadlineHit>>

\* createOpenSearchCore fails: Panic("Failed to create OpenSearch core").
OSCreateErr ==
  /\ BuildAt("create")
  /\ backend = "faulty"
  /\ build' = [build EXCEPT !.pc = "done", !.result = "panic", !.clients = @ + 1]
  /\ UNCHANGED <<clockVars, unparsable, withConsole, active, opts, fileOut, cores, logCore, mainVars>>

\* if len(cores) == 0
CtorLen ==
  /\ BuildAt("len")
  /\ IF Len(cores) = 0
       THEN build' = [build EXCEPT !.pc = "done", !.lenChecked = TRUE,
                                   !.result = ZeroSinksResult(opts.ctor)]
       ELSE build' = [build EXCEPT !.pc = "tee", !.lenChecked = TRUE]
  /\ UNCHANGED <<clockVars, unparsable, withConsole, active, opts, fileOut, cores, logCore, mainVars>>

\* coreTee := zapcore.NewTee(cores...); logger := zap.New(coreTee)
CtorTee ==
  /\ BuildAt("tee")
  /\ logCore' = NewTee(cores)
  /\ BuildEnd("logger")
  /\ UNCHANGED <<clockVars, unparsable, withConsole, active, opts, fileOut, cores, mainVars>>

\* ---- the logger of MustNewZapLoggerWithFlush in use ----

\* The lumberjack core writes the entry; the write may fail.
LogWriteFile(t) ==
  /\ pc[t] = "log_write" /\ lv[t].ce # <<>> /\ Head(lv[t].ce) = File
  /\ \E ok \in BOOLEAN : fileOut' = Append(fileOut, [rec |-> lv[t].rec, ok |-> ok])
  /\ lv' = [lv EXCEPT ![t].ce = Tail(lv[t].ce),
                      ![t].tried = Append(lv[t].tried, File)]
  /\ UNCHANGED <<clockVars, unparsable, withConsole, active, opts, build, cores, logCore, backend,
                 openSearchCore, openSearchWriter, nWriters, indexerConfig, writerVars, pc, histVars,
                 deadlineHit>>

PlainState == <<cores, logCore, consoleOut, fileOut, build, opts>>

\* flushFunc := func() error { return nil }
PlainFlush(t) ==
  /\ pc[t] = "idle" /\ t \in active
  /\ build.pc = "done" /\ build.result # "panic" /\ opts.ctor = "plain"
  /\ nFlush < MaxFlush
  /\ nFlush' = nFlush + 1
  /\ lv' = [lv EXCEPT ![t] = [NoLocals EXCEPT !.op = "plainflush",
                                              !.ffRes = PlainFlushResult]]
  /\ Goto(t, "pf_ret")
  /\ UNCHANGED <<cfgVars, backend, loggerVars, writerVars, consoleOut, nextRec,
                 justRotated, createFailed, flushErrors>>

PlainFlushReturn(t) ==
  /\ pc[t] = "pf_ret"
  /\ lv' = [lv EXCEPT ![t] = NoLocals]
  /\ Goto(t, "idle")
  /\ UNCHANGED <<cfgVars, backend, loggerVars, writerVars, histVars>>

\* Before a constructor runs: no core, no writer, nothing logged.
NoLogger ==
  /\ build = [pc |-> "start", result |-> "none", clients |-> 0, lenChecked |-> FALSE]
  /\ fileOut = <<>>
  /\ cores = <<>>
  /\ openSearchCore = 0
  /\ openSearchWriter = 0
  /\ logCore = NewTee(<<>>)
  /\ nWriters = 0
  /\ closed = [w \in Writers |-> FALSE]
  /\ stopCloses = [w \in Writers |-> 0]
  /\ mu = [w \in Writers |-> Free]
  /\ addCalls = [w \in Writers |-> 0]
  /\ closeCalls = [w \in Writers |-> 0]
  /\ items = [w \in Writers |-> <<>>]
  /\ flushReturned = [w \in Writers |-> FALSE]
  /\ pc = [t \in Threads |-> "idle"]
  /\ lv = [t \in Threads |-> NoLocals]
  /\ consoleOut = <<>>
  /\ nextRec = 1
  /\ nFlush = 0
  /\ justRotated = FALSE
  /\ createFailed = FALSE
  /\ flushErrors = {}
  /\ deadlineHit = [add |-> {}, close |-> {}]
  /\ indexerConfig = [w \in Writers |-> NoIndex]
  /\ itemIndex = [w \in Writers |-> <<>>]

InitBuild ==
  /\ withConsole \in BOOLEAN
  /\ backend \in {"healthy", "faulty"}
  /\ active \in {{1}, Threads}
  /\ opts \in [ctor : {"plain", "opensearch"}, withLJ : BOOLEAN, config : BOOLEAN,
               index : {"", "zlog-test"}, internalLogger : {"nil", "given"}]
  /\ opts.ctor = "plain" => (~opts.config /\ opts.index = "" /\ opts.internalLogger = "nil")
  /\ opts.ctor = "opensearch" => ~opts.withLJ
  /\ NoLogger
  /\ IdleClock
  /\ EncoderOutput

NextBuild ==
  \/ CtorBind
  \/ CtorCores
  \/ OSCheckConfig
  \/ OSCheckIndex
  \/ OSCreateOk
  \/ OSCreateErr
  \/ CtorLen
  \/ CtorTee
  \/ \E t \in Threads : opts.ctor = "plain" /\ LogCall(t)
  \/ \E t \in Threads : opts.ctor = "plain" /\ LogCheck(t)
  \/ \E t \in Threads : opts.ctor = "plain" /\ LogWriteConsole(t)
  \/ \E t \in Threads : LogWriteFile(t)
  \/ \E t \in Threads : opts.ctor = "plain" /\ LogFinish(t)
  \/ \E t \in Threads : opts.ctor = "plain" /\ LogReturn(t)
  \/ \E t \in Threads : PlainFlush(t)
  \/ \E t \in Threads : PlainFlushReturn(t)

\* Construction and the plain logger.
SpecBuild == InitBuild /\ [][NextBuild]_vars

\* Construction followed by the use of whichever logger was built.
NextAll == NextBuild \/ Next

SpecAll == InitBuild /\ [][NextAll]_vars

\* ---- the index name generator on its own (index_generator.go) ----

restVars == <<withConsole, backend, active, opts, build, fileOut, deadlineHit, unparsable,
              loggerVars, writerVars, histVars, pc, lv>>

\* generator := NewIndexGenerator(config)
NewGenerator(g) ==
  /\ generator[g] = NoGenerator
  /\ generator' = [generator EXCEPT ![g] = NewIndexGenerator(indexConfig[g])]
  /\ UNCHANGED <<restVars, timeNow, indexConfig, names>>

\* timeNow = func() time.Time { return instant }
SetTimeNow(i) ==
  /\ i # timeNow
  /\ timeNow' = i
  /\ UNCHANGED <<restVars, indexConfig, generator, names>>

\* generator.GetIndexName()
CallGetIndexName(g) ==
  /\ generator[g] # NoGenerator
  /\ names' = [names EXCEPT ![g] = [at |-> timeNow,
                                    name |-> GetIndexName(generator[g], timeNow)]]
  /\ UNCHANGED <<restVars, timeNow, indexConfig, generator>>

InitIndex ==
  /\ withConsole = FALSE
  /\ backend = "healthy"
  /\ active = {1}
  /\ opts = [ctor |-> "plain", withLJ |-> FALSE, config |-> FALSE, index |-> "",
             internalLogger |-> "nil"]
  /\ NoLogger
  /\ EncoderOutput
  /\ timeNow \in Instants
  /\ indexConfig \in [Gens -> [BaseIndexName : BaseNames, Format : Formats,
                               Location : Locations]]
  /\ indexConfig[1].BaseIndexName = indexConfig[2].BaseIndexName
  /\ generator = [g \in Gens |-> NoGenerator]
  /\ names = [g \in Gens |-> NoName]

NextIndex ==
  \/ \E g \in Gens : NewGenerator(g)
  \/ \E i \in Instants : SetTimeNow(i)
  \/ \E g \in Gens : CallGetIndexName(g)

SpecIndex == InitIndex /\ [][NextIndex]_vars

\* ---- one thread logging and flushing while the clock advances ----

\* The clock moves on to the next of the instants.
Tick ==
  /\ \E i \in Instants : i > timeNow
  /\ timeNow' = CHOOSE i \in Instants :
                  i > timeNow /\ \A j \in Instants : j > timeNow => i <= j
  /\ UNCHANGED <<restVars, indexConfig, generator, names>>

InitTag ==
  /\ timeNow = 1706745599
  /\ indexConfig \in [Gens -> [BaseIndexName : {"zlog-test"},
                               Format : {DateFormatDot, HourlyFormat},
                               Location : {"UTC", "Asia/Tokyo"}]]
  /\ indexConfig[2] = indexConfig[1]
  /\ generator = [g \in Gens |-> NoGenerator]
  /\ names = [g \in Gens |-> NoName]
  /\ EncoderOutput
  /\ LoggerBuilt
  /\ active = {1}

NextTag == Next \/ Tick

SpecTag == InitTag /\ [][NextTag]_vars

\* ---- the writer's methods called directly, with any buffer ----

InitWriter ==
  /\ IdleClock
  /\ unparsable \in {{r} : r \in Records}
  /\ LoggerBuilt

\* w.Flush() is called on one of the writers; the call waits for w.mu. The
\* call is counted with the flushFunc calls.
DirectFlushCall(t) ==
  /\ pc[t] = "idle" /\ t \in active
  /\ build.result = "logger" /\ opts.ctor = "opensearch"
  /\ nFlush < MaxFlush
  /\ nFlush' = nFlush + 1
  /\ \E w \in 1..nWriters :
       lv' = [lv EXCEPT ![t] = [NoLocals EXCEPT !.op = "Flush", !.w = w]]
  /\ Goto(t, "d_lock")
  /\ UNCHANGED <<cfgVars, backend, loggerVars, writerVars, consoleOut, nextRec,
                 justRotated, createFailed, flushErrors>>

\* Flush: Lock, the context of 30 s, Stats, and the call of indexer.Close.
DirectFlushLock(t) ==
  /\ pc[t] = "d_lock"
  /\ LET w == lv[t].w IN
       /\ CanLock(w)
       /\ mu' = [mu EXCEPT ![w] = t]
       /\ IF DirectFlushGuard(closed[w]) = "proceed"
            THEN /\ closeCalls' = [closeCalls EXCEPT ![w] = @ + 1]
                 /\ lv' = [lv EXCEPT ![t].invokedClose = TRUE,
                                       ![t].closedAtCall = closed[w],
                                       ![t].stoppedAtCall = stopCloses[w] > 0,
                                       ![t].closesAtCall = closeCalls[w]]
                 /\ Goto(t, "d_closing")
            ELSE /\ closeCalls' = closeCalls
                 /\ lv' = [lv EXCEPT ![t].res = DirectFlushGuard(closed[w]),
                                       ![t].closedAtCall = closed[w],
                                       ![t].stoppedAtCall = stopCloses[w] > 0,
                                       ![t].closesAtCall = closeCalls[w]]
                 /\ Goto(t, "d_unlock")
  /\ UNCHANGED <<cfgVars, backend, loggerVars, closed, stopCloses, addCalls, items,
                 itemIndex, flushReturned, histVars>>

\* indexer.Close returns nil: "Flush completed" is logged.
DirectFlushCloseOk(t) ==
  /\ pc[t] = "d_closing"
  /\ lv' = [lv EXCEPT ![t].res = "nil"]
  /\ Goto(t, "d_unlock")
  /\ UNCHANGED <<cfgVars, backend, loggerVars, writerVars, histVars>>

\* indexer.Close fails: "error closing bulk indexer" is returned.
DirectFlushCloseErr(t) ==
  /\ pc[t] = "d_closing"
  /\ backend = "faulty"
  /\ lv' = [lv EXCEPT ![t].res = "close_err"]
  /\ Goto(t, "d_unlock")
  /\ UNCHANGED <<cfgVars, backend, loggerVars, writerVars, histVars>>

\* The deferred w.mu.Unlock() of Flush.
DirectFlushUnlock(t) ==
  /\ pc[t] = "d_unlock"
  /\ mu' = [mu EXCEPT ![lv[t].w] = Free]
  /\ Goto(t, "d_ret")
  /\ UNCHANGED <<cfgVars, backend, loggerVars, closed, stopCloses, addCalls, closeCalls,
                 items, itemIndex, flushReturned, lv, histVars>>

DirectFlushReturn(t) ==
  /\ pc[t] = "d_ret"
  /\ lv' = [lv EXCEPT ![t] = NoLocals]
  /\ Goto(t, "idle")
  /\ UNCHANGED <<cfgVars, backend, loggerVars, writerVars, histVars>>

NextWriter ==
  \/ Next
  \/ \E t \in Threads : DirectFlushCall(t)
  \/ \E t \in Threads : DirectFlushLock(t)
  \/ \E t \in Threads : DirectFlushCloseOk(t)
  \/ \E t \in Threads : DirectFlushCloseErr(t)
  \/ \E t \in Threads : DirectFlushUnlock(t)
  \/ \E t \in Threads : DirectFlushReturn(t)

SpecWriter == InitWriter /\ [][NextWriter]_vars

\* ---- properties ----

InSeq(sq, x) == \E i \in 1..Len(sq) : sq[i] = x
AcceptedBy(r) == {w \in Writers : InSeq(items[w], r)}
Sequential == active = {1}
LockedPcs == {"w_add", "w_unlock", "f_stop", "f_setclosed", "f_close", "f_closing",
              "f_unlock"}

\* C1: a Write called on a writer after a FlushWithContext call has returned
\* on it (with or without error) returns ErrWriterClosed with n = 0, does not
\* call Add, and leaves the indexer's counters as they were.
WriteAfterClose ==
  \A t \in Threads :
    (pc[t] \in {"w_unlock", "w_ret"} /\ lv[t].afterFlush) =>
      /\ lv[t].res = "ErrWriterClosed"
      /\ lv[t].n = 0
      /\ addCalls[lv[t].w] = lv[t].snapAdd
      /\ Len(items[lv[t].w]) = lv[t].snapItems

WriteAfterCloseWitness ==
  \E t \in Threads :
    pc[t] = "w_ret" /\ lv[t].afterFlush /\ lv[t].res = "ErrWriterClosed"

\* C2: on every writer the indexer's Close is invoked at most once and the
\* stop channel is closed at most once; a FlushWithContext call returns
\* ErrWriterClosed exactly when it did not invoke Close.
DoubleFlush ==
  /\ \A w \in Writers : closeCalls[w] <= 1 /\ stopCloses[w] <= 1
  /\ \A t \in Threads :
       pc[t] \in {"f_unlock", "f_ret"} =>
         (lv[t].res = "ErrWriterClosed" <=> ~lv[t].invokedClose)

DoubleFlushWitness ==
  \E t \in Threads :
    /\ pc[t] = "f_ret" /\ lv[t].res = "ErrWriterClosed"
    /\ closeCalls[lv[t].w] = 1 /\ stopCloses[lv[t].w] = 1

\* C3 (as claimed): in a sequential run on a healthy backend, the record logged
\* right after a flushFunc call returned nil is accepted by the new writer.
RotationContinuity ==
  \A t \in Threads :
    (pc[t] = "log_done" /\ lv[t].afterRot /\ Sequential /\ backend = "healthy") =>
      AcceptedBy(lv[t].rec) = {openSearchWriter}

\* C4: in a sequential run on a healthy backend every flushFunc call returns
\* nil, and the writer the next call will flush is the writer that call has
\* just created: open, stop channel open, unlocked, not the one just closed.
RepeatedRotate ==
  \A t \in Threads :
    (pc[t] = "ff_ret" /\ Sequential /\ backend = "healthy") =>
      /\ lv[t].ffRes = "nil"
      /\ openSearchWriter = lv[t].ffNew
      /\ openSearchWriter # lv[t].w
      /\ ~closed[openSearchWriter]
      /\ stopCloses[openSearchWriter] = 0
      /\ mu[openSearchWriter] = Free
      /\ closed[lv[t].w]

RepeatedRotateWitness ==
  /\ Sequential /\ backend = "healthy"
  /\ pc[1] = "ff_ret" /\ nFlush >= 2 /\ nextRec > 1
  /\ lv[1].ffRes = "nil"

\* C5 (as claimed): with console and remote sinks on a healthy backend, a record
\* logged while a flushFunc call was running is accepted by exactly one writer.
ExactlyOneWriter ==
  \A t \in Threads :
    (pc[t] = "log_done" /\ lv[t].conc /\ withConsole /\ backend = "healthy") =>
      Cardinality(AcceptedBy(lv[t].rec)) = 1

\* C6: a flushFunc call whose FlushWithContext failed in Close (error or
\* deadline) returns that error, has created no sink and written none of the
\* sink list, remote core and tracked writer, and leaves the writer closed; in
\* a sequential run these are the same objects as when the call started.
FailedFlushFrame ==
  \A t \in Threads :
    (pc[t] = "ff_ret" /\ lv[t].res \in {"close_err", "deadline"}) =>
      /\ lv[t].ffRes = lv[t].res
      /\ ~lv[t].ffMut
      /\ lv[t].ffNew = 0
      /\ closed[lv[t].w]
      /\ openSearchWriter # lv[t].w => ~Sequential
      /\ Sequential => lv[t].snap = LoggerState

FailedFlushFrameWitness ==
  \E t \in Threads :
    /\ pc[t] = "ff_ret" /\ lv[t].res \in {"close_err", "deadline"}
    /\ lv[t].snap = LoggerState

\* C7 (as claimed): with console and remote sinks, after a replacement sink
\* could not be created, a flushFunc call made once the backend has recovered
\* returns nil and leaves an open tracked writer.
RecoverableCreateFailure ==
  \A t \in Threads :
    (pc[t] = "ff_ret" /\ lv[t].afterCreateFail /\ lv[t].bk = "recovered"
       /\ Sequential /\ withConsole) =>
      (lv[t].ffRes = "nil" /\ ~closed[openSearchWriter])

LockFreeDuringAdd ==
  \A t \in Threads : \A u \in Others(t) :
    (pc[t] = "w_add" /\ pc[u] \in {"w_lock", "f_lock"} /\ lv[u].w = lv[t].w) =>
      CanLock(lv[t].w)

\* C9 (amended): while a Write is inside Add it holds the writer's lock, and no
\* other thread is past the Lock of Write or FlushWithContext on that writer.
LockHeldDuringAdd ==
  \A t \in Threads :
    pc[t] = "w_add" =>
      /\ mu[lv[t].w] = t
      /\ \A u \in Others(t) : lv[u].w = lv[t].w => pc[u] \notin LockedPcs

LockHeldDuringAddWitness ==
  \E t \in Threads : \E u \in Others(t) :
    pc[t] = "w_add" /\ pc[u] \in {"w_lock", "f_lock"} /\ lv[u].w = lv[t].w

\* C10 (as claimed): at most one thread is inside flushFunc at a time, and no
\* thread is about to write the sink list while another is about to read it.
SwapMutualExclusion ==
  /\ Cardinality({t \in Threads : InFlush(t)}) <= 1
  /\ \A t \in Threads : \A u \in Others(t) :
       ~(pc[t] = "ff_swap" /\ pc[u] = "log_check")

\* C12 (as claimed): a FlushWithContext called on a writer after an Add or a
\* Close of that writer exceeded its deadline is accepted.
DeadlineKeepsWriterUsable ==
  \A t \in Threads :
    (/\ pc[t] \in {"f_unlock", "f_ret"} /\ Sequential
     /\ lv[t].closeDl \/ (lv[t].addDl /\ ~lv[t].flushedBefore)) =>
      lv[t].res # "ErrWriterClosed"

\* C12 (amended): after an Add exceeded its deadline the first FlushWithContext
\* on that writer is accepted and invokes Close; after a Close exceeded its
\* deadline the writer is closed and a later FlushWithContext on it returns
\* ErrWriterClosed without invoking Close.
DeadlineLeavesState ==
  \A t \in Threads :
    pc[t] \in {"f_unlock", "f_ret"} =>
      /\ (lv[t].addDl /\ ~lv[t].flushedBefore /\ Sequential) =>
           (lv[t].res # "ErrWriterClosed" /\ lv[t].invokedClose)
      /\ lv[t].closeDl =>
           (lv[t].res = "ErrWriterClosed" /\ ~lv[t].invokedClose /\ closed[lv[t].w])

DeadlineLeavesStateWitness ==
  \E t \in Threads :
    /\ pc[t] = "f_ret" /\ lv[t].addDl /\ lv[t].closeDl
    /\ lv[t].res = "ErrWriterClosed"

\* C11 (as claimed): once its timeout has expired, the function returned by
\* FlushLogsWithTimeout is not held up by another thread: it is never waiting
\* for the writer's lock while a Write holds it inside Add.
WrapperNotBlockedPastTimeout ==
  \A t \in Threads : \A u \in Others(t) :
    (lv[t].wrapped /\ lv[t].expired) =>
      ~(pc[t] = "f_lock" /\ pc[u] = "w_add" /\ lv[u].w = lv[t].w)

\* C13: every call of the flush function of MustNewZapLoggerWithFlush returns
\* nil and leaves the sink list, the logger, the sinks' output and the
\* construction result as they were.
PlainFlushNoop ==
  [][\A t \in Threads :
       (pc[t] = "idle" /\ pc'[t] = "pf_ret") =>
         (lv'[t].ffRes = "nil" /\ PlainState' = PlainState)]_vars

PlainFlushNoopWitness ==
  \E t \in Threads : pc[t] = "pf_ret" /\ nFlush >= 2 /\ nextRec > 1

\* C14 (as claimed): a constructor that finds its sink list empty panics.
ZeroSinksFailFast ==
  (build.pc = "done" /\ build.lenChecked /\ Len(cores) = 0) => build.result = "panic"

\* C15: MustNewZapLoggerWithOpenSearch without a config or with an empty index
\* never creates a client or a writer and never returns a logger; when it ends,
\* it has panicked.
MissingRemoteOptionsPanic ==
  (opts.ctor = "opensearch" /\ (~opts.config \/ opts.index = "")) =>
    /\ build.clients = 0 /\ nWriters = 0
    /\ build.pc \notin {"create", "len", "tee"}
    /\ build.result \in {"none", "panic"}
    /\ build.pc = "done" => build.result = "panic"

MissingRemoteOptionsPanicWitness ==
  /\ opts.ctor = "opensearch" /\ opts.config /\ opts.index = ""
  /\ opts.internalLogger = "nop"
  /\ build.pc = "done" /\ build.result = "panic"

CountIn(sq, r) == Cardinality({i \in 1..Len(sq) : sq[i] = r})
CountFile(r) == Cardinality({i \in 1..Len(fileOut) : fileOut[i].rec = r})
InFlight(r) == \E t \in Threads : InLog(t) /\ pc[t] # "log_done" /\ lv[t].rec = r

\* C16: for every record whose log call has run through, each configured sink
\* was written exactly once, whatever the other sinks' writes returned: the
\* console if enabled, the file if enabled, and one remote writer.
FanOutIsolation ==
  /\ \A r \in 1..(nextRec - 1) :
       ~InFlight(r) =>
         /\ withConsole => CountIn(consoleOut, r) = 1
         /\ (opts.ctor = "plain" /\ opts.withLJ) => CountFile(r) = 1
  /\ \A t \in Threads :
       pc[t] = "log_done" =>
         /\ lv[t].tried = lv[t].checked
         /\ opts.ctor = "opensearch" =>
              Cardinality({i \in 1..Len(lv[t].tried) : lv[t].tried[i] \in Writers}) = 1

FanOutIsolationWitness ==
  \E t \in Threads :
    /\ pc[t] = "log_done" /\ lv[t].rec >= 2
    /\ lv[t].res = "ErrWriterClosed"
    /\ CountIn(consoleOut, lv[t].rec) = 1

\* ---- index names ----

\* The local day, hour and month an instant falls in, counted from the epoch.
LocalSeconds(loc, t) == IF loc = "Asia/Tokyo" THEN t + 32400 ELSE t
LocalDay(loc, t) == LocalSeconds(loc, t) \div 86400
LocalHour(loc, t) == LocalSeconds(loc, t) \div 3600
\* The first days of January, February and March 2024.
MonthStarts == {19723, 19754, 19783}
LocalMonth(loc, t) == Cardinality({d \in MonthStarts : d <= LocalDay(loc, t)})

\* The bucket of a generator at an instant: the period its format resolves.
Bucket(g, t) ==
  CASE g.format = DateFormatDot -> LocalDay(g.location, t)
    [] g.format = HourlyFormat -> LocalHour(g.location, t)
    [] g.format = MonthlyFormat -> LocalMonth(g.location, t)

Called(g) == generator[g] # NoGenerator /\ names[g] # NoName

\* C17: GetIndexName is a function of base name, format, location and instant:
\* two generators with the same three fields return the same name exactly when
\* the instants they were called at fall in the same bucket of the location
\* (the same day for the daily format, the same hour or month for the others);
\* in particular the same instant gives the same name.
GetIndexNameDeterministic ==
  \A g, h \in Gens :
    (Called(g) /\ Called(h) /\ generator[g] = generator[h]) =>
      ((names[g].name = names[h].name) <=>
         (Bucket(generator[g], names[g].at) = Bucket(generator[h], names[h].at)))

GetIndexNameDeterministicWitness ==
  /\ Called(1) /\ Called(2) /\ generator[1] = generator[2]
  /\ generator[1].format = DateFormatDot /\ generator[1].location = "UTC"
  /\ names[1].at = 1704153599 /\ names[1].name = "app-logs-2024.01.01"
  /\ names[2].at = 1704153600 /\ names[2].name = "app-logs-2024.01.02"

\* C18: a generator in Asia/Tokyo (+9h) returns at an instant the name a UTC
\* generator returns nine hours later, and two daily generators that differ
\* only in location return different names at one instant exactly when the
\* instant falls on different days in the two locations.
TimezoneSensitivity ==
  \A g, h \in Gens :
    (/\ Called(g) /\ Called(h)
     /\ generator[g].baseIndexName = generator[h].baseIndexName
     /\ generator[g].format = generator[h].format) =>
      /\ (/\ generator[g].location = "Asia/Tokyo" /\ generator[h].location = "UTC"
          /\ names[h].at = names[g].at + 32400) => names[g].name = names[h].name
      /\ (generator[g].format = DateFormatDot /\ names[g].at = names[h].at) =>
           ((names[g].name # names[h].name) <=>
              (LocalDay(generator[g].location, names[g].at) #
                 LocalDay(generator[h].location, names[h].at)))

TimezoneSensitivityWitness ==
  /\ Called(1) /\ Called(2)
  /\ indexConfig[1] = [BaseIndexName |-> "logs", Format |-> DateFormatDot,
                       Location |-> "Asia/Tokyo"]
  /\ indexConfig[2] = [BaseIndexName |-> "logs", Format |-> DateFormatDot,
                       Location |-> "UTC"]
  /\ names[1] = [at |-> 1704121200, name |-> "logs-2024.01.02"]
  /\ names[2] = [at |-> 1704121200, name |-> "logs-2024.01.01"]

\* C19: at one instant and for one base name, a generator built with an empty
\* Format returns the name of one built with DateFormatDot, and a generator
\* built with a nil Location returns the name of one built with UTC.
DefaultFallbacks ==
  \A g, h \in Gens :
    (/\ Called(g) /\ Called(h) /\ names[g].at = names[h].at
     /\ indexConfig[g].BaseIndexName = indexConfig[h].BaseIndexName) =>
      /\ (/\ indexConfig[g].Format = <<>> /\ indexConfig[h].Format = DateFormatDot
          /\ indexConfig[g].Location = indexConfig[h].Location) =>
           names[g].name = names[h].name
      /\ (/\ indexConfig[g].Location = "nil" /\ indexConfig[h].Location = "UTC"
          /\ indexConfig[g].Format = indexConfig[h].Format) =>
           names[g].name = names[h].name

DefaultFallbacksWitness ==
  /\ Called(1) /\ Called(2)
  /\ indexConfig[1] = [BaseIndexName |-> "app-logs", Format |-> <<>>, Location |-> "nil"]
  /\ indexConfig[2] = [BaseIndexName |-> "app-logs", Format |-> <<>>, Location |-> "UTC"]
  /\ names[1] = [at |-> 1709251199, name |-> "app-logs-2024.02.29"]
  /\ names[2] = names[1]

\* C20: every item carries the name of the bucket the clock was in when its
\* Write computed it: two items of a writer have the same Index exactly when
\* they were written in the same bucket, and an item has the Index computed
\* when the writer was constructed only if it was written in that bucket.
IndexComputedPerWrite ==
  \A w \in Writers :
    /\ Len(itemIndex[w]) = Len(items[w])
    /\ \A i \in 1..Len(itemIndex[w]) :
         LET it == itemIndex[w][i] IN
           /\ \A j \in 1..Len(itemIndex[w]) :
                (it.Index = itemIndex[w][j].Index) <=>
                  (Bucket(WriterGenerator, it.at) =
                     Bucket(WriterGenerator, itemIndex[w][j].at))
           /\ (it.Index = indexerConfig[w].Index) <=>
                (Bucket(WriterGenerator, it.at) =
                   Bucket(WriterGenerator, indexerConfig[w].at))

IndexComputedPerWriteWitness ==
  /\ nFlush = 0 /\ Len(itemIndex[1]) = 2
  /\ indexerConfig[1].Index = "zlog-test-2024.01.31"
  /\ itemIndex[1][1].Index = "zlog-test-2024.01.31"
  /\ itemIndex[1][2].Index = "zlog-test-2024.02.01"

\* C21: a Write returns either (len(buffer), nil) or (0, error); it returns nil
\* only after calling Add once, Add returning nil and the item being in the
\* batch; a failed Add is returned as an error; a buffer that does not parse is
\* rejected without a call of Add.
NoSilentDrop ==
  \A t \in Threads :
    pc[t] \in {"w_unlock", "w_ret"} =>
      LET w == lv[t].w IN
        /\ (lv[t].res = "nil" /\ lv[t].n = 1) \/ (lv[t].res # "nil" /\ lv[t].n = 0)
        /\ lv[t].res \in {"nil", "add_err", "parse_err", "ErrWriterClosed",
                          "ErrWriterIsStopping"}
        /\ lv[t].res = "nil" =>
             (lv[t].addsMade = 1 /\ CountIn(items[w], lv[t].rec) = 1)
        /\ lv[t].res = "add_err" =>
             (lv[t].addsMade = 1 /\ w \in deadlineHit.add /\ ~InSeq(items[w], lv[t].rec))
        /\ lv[t].res \notin {"nil", "add_err"} =>
             (lv[t].addsMade = 0 /\ ~InSeq(items[w], lv[t].rec))
        /\ lv[t].rec \in unparsable =>
             (lv[t].res \in {"parse_err", "ErrWriterClosed"} /\ lv[t].addsMade = 0)

NoSilentDropWitness ==
  \E t \in Threads :
    /\ pc[t] = "w_ret" /\ lv[t].res = "parse_err" /\ lv[t].rec = 2
    /\ Len(items[lv[t].w]) = 1 /\ addCalls[lv[t].w] = 1

\* C22 (as claimed): FlushWithContext closes the stop channel, then sets
\* closed, then invokes the indexer's Close; and a Write called on the writer
\* while that Close runs is not kept waiting: it can take the lock and return.
FlushOrderFailFast ==
  /\ \A t \in Threads :
       LET w == lv[t].w IN
         /\ pc[t] = "f_stop" => (stopCloses[w] = 0 /\ ~closed[w] /\ ~lv[t].invokedClose)
         /\ pc[t] = "f_setclosed" => (stopCloses[w] = 1 /\ ~closed[w] /\ ~lv[t].invokedClose)
         /\ pc[t] = "f_close" => (stopCloses[w] = 1 /\ closed[w] /\ ~lv[t].invokedClose)
         /\ pc[t] = "f_closing" => (stopCloses[w] = 1 /\ closed[w] /\ lv[t].invokedClose)
  /\ \A t \in Threads : \A u \in Others(t) :
       (pc[t] = "f_closing" /\ pc[u] = "w_lock" /\ lv[u].w = lv[t].w) => CanLock(lv[t].w)

\* C23 (as claimed): once the timeout has expired the function returned by
\* FlushLogsWithTimeout no longer waits for the flush, and the expiry does not
\* cancel the flush: on a healthy backend its Close is not given up.
FlushSurvivesTimeout ==
  \A t \in Threads :
    lv[t].wrapped =>
      /\ lv[t].expired => pc[t] = "ff_ret"
      /\ (pc[t] \in {"f_unlock", "f_ret", "ff_ret"} /\ backend = "healthy") =>
           lv[t].res # "deadline"

\* C24: on one writer at most one Add is in progress at a time; the Add of a
\* Write is a later call than every Add made before the Write was called, and
\* the item it adds comes after the items that were in the batch then, which
\* keep their places.
SubmissionOrder ==
  /\ \A w \in Writers :
       Cardinality({t \in Threads : pc[t] = "w_add" /\ lv[t].w = w}) <= 1
  /\ \A t \in Threads :
       pc[t] \in {"w_add", "w_unlock", "w_ret"} =>
         LET w == lv[t].w IN
           /\ Len(lv[t].seenItems) <= Len(items[w])
           /\ SubSeq(items[w], 1, Len(lv[t].seenItems)) = lv[t].seenItems
           /\ ~InSeq(lv[t].seenItems, lv[t].rec)
           /\ lv[t].addsMade = 1 =>
                /\ lv[t].addNo > lv[t].snapAdd
                /\ \A u \in Others(t) :
                     (pc[u] \in {"w_add", "w_unlock", "w_ret"} /\ lv[u].w = w
                        /\ lv[u].addsMade = 1) => lv[u].addNo # lv[t].addNo
           /\ lv[t].res = "nil" =>
                \E i \in (Len(lv[t].seenItems) + 1)..Len(items[w]) :
                  items[w][i] = lv[t].rec

SubmissionOrderWitness ==
  /\ active = Threads
  /\ pc[2] = "log_done" /\ lv[2].res = "nil" /\ lv[2].rec = 1
  /\ pc[1] = "w_ret" /\ lv[1].res = "nil" /\ lv[1].rec = 2
  /\ lv[1].w = lv[2].w /\ items[lv[1].w] = <<1, 2>>
  /\ lv[1].seenItems = <<1>> /\ lv[1].addNo = 2

\* C25: on every writer at most one of Add and Close is in progress at a time,
\* and Add is not called once Close has been invoked: the number of Add calls
\* stays what it was when Close was invoked.
NoAddAfterClose ==
  /\ \A w \in Writers :
       Cardinality({t \in Threads : pc[t] \in {"w_add", "f_closing"} /\ lv[t].w = w}) <= 1
  /\ \A t \in Threads :
       pc[t] = "w_add" => (closeCalls[lv[t].w] = 0 /\ ~closed[lv[t].w])
  /\ \A t \in Threads :
       (InFlush(t) /\ lv[t].invokedClose) => addCalls[lv[t].w] = lv[t].snapAdd

NoAddAfterCloseWitness ==
  \E t \in Threads : \E u \in Others(t) :
    /\ pc[u] = "f_closing" /\ pc[t] = "w_lock" /\ lv[t].w = lv[u].w
    /\ addCalls[lv[u].w] >= 1

\* C26: whenever a writer's lock is free its stop channel is closed exactly
\* when its closed flag is set; the flag is never reset; and no Write returns
\* ErrWriterIsStopping.
StopMatchesClosed ==
  /\ [](\A w \in Writers : mu[w] = Free => (stopCloses[w] > 0 <=> closed[w]))
  /\ [](\A t \in Threads : lv[t].res # "ErrWriterIsStopping")
  /\ [][\A w \in Writers : closed[w] => closed'[w]]_vars

StopMatchesClosedWitness ==
  \E t \in Threads :
    /\ pc[t] = "w_ret" /\ lv[t].inWindow /\ lv[t].res = "ErrWriterClosed"
    /\ mu[lv[t].w] = Free /\ closed[lv[t].w] /\ stopCloses[lv[t].w] = 1

\* C27: once a flushFunc call has returned the error of a Close or of a
\* creation, every flushFunc call made later returns ErrWriterClosed and
\* creates nothing, every log call made later has its remote write rejected
\* with ErrWriterClosed, and no writer of the logger is open.
PermanentFailure ==
  /\ FlushFailed => \A w \in 1..nWriters : closed[w]
  /\ \A t \in Threads :
       lv[t].afterFail =>
         /\ pc[t] = "ff_ret" =>
              (lv[t].ffRes = "ErrWriterClosed" /\ lv[t].ffNew = 0 /\ ~lv[t].ffMut)
         /\ pc[t] \in {"w_unlock", "w_ret"} =>
              (lv[t].res = "ErrWriterClosed" /\ lv[t].addsMade = 0)
         /\ pc[t] = "log_done" => \E i \in 1..Len(lv[t].tried) : lv[t].tried[i] \in Writers

PermanentFailureWitness ==
  /\ FlushFailed /\ backend = "recovered"
  /\ \E t \in Threads : \E u \in Others(t) :
       /\ pc[t] = "ff_ret" /\ lv[t].afterFail
       /\ pc[u] = "w_ret" /\ lv[u].afterFail /\ lv[u].res = "ErrWriterClosed"

\* The writers whose cores are in the sink list.
Installed == {w \in Writers : InSeq(cores, w)}

\* C28 (as claimed): whenever no flushFunc call is running, the writer the next
\* call will flush is the one whose core is in the sink list, and it is open
\* if every flushFunc call so far returned nil.
TrackedMatchesInstalled ==
  (\A t \in Threads : ~InFlush(t)) =>
    /\ Installed = {openSearchWriter}
    /\ flushErrors = {} => ~closed[openSearchWriter]

\* The writers created so far that are not closed.
OpenWriters == {w \in 1..nWriters : ~closed[w]}

\* C29: at most one writer of the logger is open; a flushFunc call creates a
\* replacement only after its FlushWithContext closed the newest writer and
\* returned nil, when no writer is open; and no writer is flushed with
\* success by two calls.
AtMostOneOpenWriter ==
  /\ Cardinality(OpenWriters) <= 1
  /\ \A w \in Writers : closeCalls[w] <= 1
  /\ \A t \in Threads :
       pc[t] = "ff_create" =>
         /\ lv[t].res = "nil" /\ lv[t].invokedClose
         /\ lv[t].w = nWriters
         /\ OpenWriters = {}
  /\ \A t \in Threads : \A u \in Others(t) :
       (/\ pc[t] \in {"f_ret", "ff_create", "ff_swap", "ff_swap2", "ff_ret"}
        /\ pc[u] \in {"f_ret", "ff_create", "ff_swap", "ff_swap2", "ff_ret"}
        /\ lv[t].res = "nil" /\ lv[u].res = "nil") => lv[t].w # lv[u].w

AtMostOneOpenWriterWitness ==
  /\ nWriters = 3 /\ OpenWriters = {3}
  /\ \E t \in Threads : \E u \in Others(t) :
       /\ pc[t] = "ff_swap" /\ lv[t].w = 2 /\ lv[t].ffNew = 3
       /\ pc[u] = "ff_swap2" /\ lv[u].w = 1 /\ lv[u].ffNew = 2

\* C30: Flush() invokes the indexer's Close whatever the closed flag and the
\* stop channel are and however often Close was invoked before, and leaves
\* both as they were; a Write on a writer whose Close was invoked but whose
\* closed flag is not set is not rejected with ErrWriterClosed and calls Add.
DirectFlushLeavesOpen ==
  /\ \A t \in Threads :
       pc[t] \in {"d_closing", "d_unlock"} =>
         LET w == lv[t].w IN
           /\ lv[t].invokedClose
           /\ closeCalls[w] = lv[t].closesAtCall + 1
           /\ closed[w] = lv[t].closedAtCall
           /\ (stopCloses[w] > 0) = lv[t].stoppedAtCall
  /\ \A t \in Threads :
       (/\ pc[t] \in {"w_unlock", "w_ret"}
        /\ closeCalls[lv[t].w] > 0 /\ ~closed[lv[t].w]
        /\ lv[t].rec \notin unparsable) =>
         (lv[t].addsMade = 1 /\ lv[t].res \in {"nil", "add_err"})

DirectFlushLeavesOpenWitness ==
  \E t \in Threads : \E u \in Others(t) :
    /\ pc[t] = "w_ret" /\ lv[t].res = "nil" /\ ~closed[lv[t].w]
    /\ pc[u] = "d_unlock" /\ lv[u].w = lv[t].w /\ lv[u].closesAtCall = 1
    /\ closeCalls[lv[t].w] = 2

TypeOK ==
  /\ nWriters \in Writers \cup {0}
  /\ openSearchWriter \in 0..nWriters
  /\ \A w \in Writers : mu[w] \in Threads \cup {Free}
====
